---- MODULE Spec2Model ----
(***************************************************************************)
(* Model of computer_use_demo/tools/computer.py (ComputerTool: validation, *)
(* coordinate scaling, dispatch to pyautogui / mss) and of                 *)
(* computer_use_demo/tools/run.py (maybe_truncate, run_shell, run).        *)
(*                                                                         *)
(* Python strings are sequences of one-character strings.  Python values   *)
(* whose type the code inspects carry a type tag.  An optional field of a  *)
(* ToolResult is <<>> (None) or <<v>>.                                     *)
(***************************************************************************)
EXTENDS Integers, Sequences, FiniteSets, TLC

VARIABLES
    \* ---- ComputerTool ----
    width, height,      \* self.width, self.height: the physical resolution
    pointer,            \* the live pointer position, physical pixels
    buttonDown,         \* the left button is held down
    req,                \* arguments of the last __call__
    calls,              \* capability calls made by the last __call__, in order
    outcome,            \* how the last __call__ ended
    result,             \* the ToolResult it returned, if any
    \* ---- run / run_shell ----
    operation,          \* the operation given to run
    timeout,            \* the timeout given to run
    rpc,                \* where run is suspended
    process,            \* state of the spawned process
    procOut,            \* what the process wrote: [code, stdout, stderr]
    worker,             \* state of the to_thread worker
    runOutcome,         \* how run ended
    truncate_after,     \* the truncate_after given to run or to maybe_truncate
    \* ---- maybe_truncate ----
    content,            \* the content given to maybe_truncate
    truncated           \* what it returned

toolVars == <<width, height, pointer, buttonDown, req, calls, outcome, result>>
runVars == <<operation, timeout, rpc, process, procOut, worker, runOutcome, truncate_after>>
truncVars == <<content, truncated>>
vars == <<toolVars, runVars, truncVars>>

(***************************************************************************)
(* Python values                                                           *)
(***************************************************************************)
PyNone == [type |-> "NoneType"]
PyStr(s) == [type |-> "str", val |-> s]
PyInt(n) == [type |-> "int", val |-> n]
PyFloat(n) == [type |-> "float", val |-> n]      \* the float n + 0.5
PyList(s) == [type |-> "list", val |-> s]
PyTuple(s) == [type |-> "tuple", val |-> s]

None == <<>>
Some(v) == <<v>>

UpperChars == <<"A", "B", "C", "D", "E", "F", "G", "H", "I", "J", "K", "L", "M",
                "N", "O", "P", "Q", "R", "S", "T", "U", "V", "W", "X", "Y", "Z">>
LowerChars == <<"a", "b", "c", "d", "e", "f", "g", "h", "i", "j", "k", "l", "m",
                "n", "o", "p", "q", "r", "s", "t", "u", "v", "w", "x", "y", "z">>

\* str.lower()
Lower(s) ==
    [i \in 1..Len(s) |->
        IF \E k \in 1..26 : UpperChars[k] = s[i]
        THEN LowerChars[CHOOSE k \in 1..26 : UpperChars[k] = s[i]]
        ELSE s[i]]

\* sub in s
Contains(s, sub) ==
    \E i \in 0..(Len(s) - Len(sub)) : SubSeq(s, i + 1, i + Len(sub)) = sub

\* s.replace(old, new), old non-empty: leftmost occurrences, not overlapping
RECURSIVE Replace(_, _, _)
Replace(s, old, new) ==
    IF Len(s) < Len(old) THEN s
    ELSE IF SubSeq(s, 1, Len(old)) = old
         THEN new \o Replace(SubSeq(s, Len(old) + 1, Len(s)), old, new)
         ELSE <<s[1]>> \o Replace(Tail(s), old, new)

\* s.split(sep), sep one character: empty pieces are kept
RECURSIVE Split(_, _)
Split(s, sep) ==
    IF ~(\E i \in 1..Len(s) : s[i] = sep) THEN <<s>>
    ELSE LET i == CHOOSE j \in 1..Len(s) :
                        s[j] = sep /\ \A k \in 1..(j - 1) : s[k] # sep
         IN <<SubSeq(s, 1, i - 1)>> \o Split(SubSeq(s, i + 1, Len(s)), sep)

\* round(num / den) for num >= 0, den > 0: Python rounds halves to even
PyRound(num, den) ==
    LET q == num \div den
        r == num % den
    IN IF 2 * r < den THEN q
       ELSE IF 2 * r > den THEN q + 1
       ELSE IF q % 2 = 0 THEN q ELSE q + 1

(***************************************************************************)
(* ComputerTool                                                            *)
(***************************************************************************)
target_width == 1280
target_height == 800
scaling_enabled == TRUE
FAILSAFE == TRUE

Action == {"key", "type", "mouse_move", "left_click", "left_click_drag",
           "right_click", "middle_click", "double_click", "screenshot",
           "cursor_position"}

ToolResult(o, e, i) == [output |-> o, error |-> e, base64_image |-> i]
NoResult == ToolResult(None, None, None)
Image == "PNG"

Ev(op, arg) == [op |-> op, arg |-> arg]

\* A call in progress: the machine it acts on and what it has done so far.
Machine(p, b) == [pointer |-> p, buttonDown |-> b, calls |-> <<>>, raised |-> FALSE]

\* The effect of a capability call that goes through.  The pointer is taken to
\* land where moveTo asked.
Effect(m, op, arg) ==
    [m EXCEPT !.calls = Append(@, Ev(op, arg)),
              !.pointer = IF op = "moveTo" THEN arg ELSE @,
              !.buttonDown = IF op = "mouseDown" THEN TRUE
                             ELSE IF op \in {"mouseUp", "click", "doubleClick"}
                                  THEN FALSE ELSE @]

\* The k-th pyautogui injection call of a handler.  With FAILSAFE set, pyautogui
\* raises FailSafeException instead of acting when the pointer is in the screen
\* corner (0, 0) at that moment; the pointer is live, so the user may have put
\* it there just before this call (abortAt = k).
Inject(m, op, arg, k, abortAt) ==
    LET p == IF abortAt = k THEN <<0, 0>> ELSE m.pointer
        at == [m EXCEPT !.pointer = p]
    IN IF m.raised THEN m
       ELSE IF FAILSAFE /\ p = <<0, 0>> THEN [at EXCEPT !.raised = TRUE]
       ELSE Effect(at, op, arg)

\* A capability call pyautogui does not guard (position, mss.grab).
Plain(m, op, arg) == IF m.raised THEN m ELSE Effect(m, op, arg)

\* ComputerTool.scale_coordinates
scale_coordinates(x, y) ==
    IF ~scaling_enabled THEN <<x, y>>
    ELSE <<PyRound(x * width, target_width), PyRound(y * height, target_height)>>

\* screenshot, were it to describe the capture in output as well
screenshot_with_output == ToolResult(Some(<<"screenshot">>), None, Some(Image))

\* ComputerTool.screenshot
screenshot == ToolResult(None, None, Some(Image))

\* How a handler ends once its capability calls are made.
Finish(m, res) ==
    IF m.raised
    THEN [m |-> m, outcome |-> "FailSafeException", result |-> NoResult]
    ELSE [m |-> m, outcome |-> "ToolResult", result |-> res]

Raise(m) == [m |-> m, outcome |-> "ToolError", result |-> NoResult]

\* isinstance(coordinate, list) and len(coordinate) == 2
IsListOfTwo(c) == c.type = "list" /\ Len(c.val) = 2

\* all(isinstance(i, int) and i >= 0 for i in coordinate)
NonNegativeInts(c) == \A i \in 1..Len(c.val) : c.val[i].type = "int" /\ c.val[i].val >= 0

\* coordinate[0] > self.width or coordinate[1] > self.height
OutOfBounds(c) == c.val[1].val > width \/ c.val[2].val > height

\* "Command" in text or "command" in text
IsCommandCombo(s) ==
    \/ Contains(s, <<"C", "o", "m", "m", "a", "n", "d">>)
    \/ Contains(s, <<"c", "o", "m", "m", "a", "n", "d">>)

\* text.lower().replace("_l", "").split("+")
HotkeyKeys(s) == Split(Replace(Lower(s), <<"_", "l">>, <<>>), "+")

\* mouse_move / left_click_drag
MoveHandler(m, action, text, coordinate, abortAt) ==
    IF coordinate.type = "NoneType" THEN Raise(m)
    ELSE IF text.type # "NoneType" THEN Raise(m)
    ELSE IF ~IsListOfTwo(coordinate) THEN Raise(m)
    ELSE IF ~NonNegativeInts(coordinate) THEN Raise(m)
    ELSE IF OutOfBounds(coordinate) THEN Raise(m)
    ELSE LET xy == scale_coordinates(coordinate.val[1].val, coordinate.val[2].val)
             m0 == Plain(m, "scale_coordinates", <<coordinate.val[1].val, coordinate.val[2].val>>)
         IN IF action = "mouse_move"
            THEN Finish(Inject(m0, "moveTo", xy, 1, abortAt), ToolResult(None, None, None))
            ELSE LET m1 == Plain(m0, "position", m0.pointer)
                     m2 == Inject(m1, "mouseDown", <<>>, 1, abortAt)
                     m3 == Inject(m2, "moveTo", xy, 2, abortAt)
                     m4 == Inject(m3, "mouseUp", <<>>, 3, abortAt)
                 IN Finish(m4, ToolResult(None, None, None))

\* key / type
TextHandler(m, action, text, coordinate, abortAt) ==
    IF text.type = "NoneType" THEN Raise(m)
    ELSE IF coordinate.type # "NoneType" THEN Raise(m)
    ELSE IF text.type # "str" THEN Raise(m)
    ELSE IF action = "key"
         THEN IF IsCommandCombo(text.val)
              THEN Finish(Inject(m, "hotkey", HotkeyKeys(text.val), 1, abortAt),
                          ToolResult(None, None, None))
              ELSE Finish(Inject(m, "press", <<text.val>>, 1, abortAt),
                          ToolResult(None, None, None))
         ELSE LET m1 == Inject(m, "write", <<text.val>>, 1, abortAt)
              IN Finish(Plain(m1, "grab", <<>>), screenshot)

\* "X={scaled_x},Y={scaled_y}"
FormatXY(x, y) == <<"X=", x, ",Y=", y>>

ClickFunction(action) ==
    CASE action = "left_click" -> "click"
      [] action = "right_click" -> "rightClick"
      [] action = "middle_click" -> "middleClick"
      [] action = "double_click" -> "doubleClick"

\* left_click / right_click / double_click / middle_click / screenshot / cursor_position
PlainHandler(m, action, text, coordinate, abortAt) ==
    IF text.type # "NoneType" THEN Raise(m)
    ELSE IF coordinate.type # "NoneType" THEN Raise(m)
    ELSE IF action = "screenshot" THEN Finish(Plain(m, "grab", <<>>), screenshot)
    ELSE IF action = "cursor_position"
         THEN LET m1 == Plain(m, "position", m.pointer)
                  xy == scale_coordinates(m1.pointer[1], m1.pointer[2])
              IN Finish(Plain(m1, "scale_coordinates", m1.pointer),
                        ToolResult(Some(FormatXY(xy[1], xy[2])), None, None))
         ELSE LET m1 == Inject(m, ClickFunction(action), <<>>, 1, abortAt)
              IN Finish(Plain(m1, "grab", <<>>), screenshot)

\* ComputerTool.__call__
Call(m, action, text, coordinate, abortAt) ==
    IF action \in {"mouse_move", "left_click_drag"}
    THEN MoveHandler(m, action, text, coordinate, abortAt)
    ELSE IF action \in {"key", "type"}
    THEN TextHandler(m, action, text, coordinate, abortAt)
    ELSE IF action \in {"left_click", "right_click", "double_click", "middle_click",
                        "screenshot", "cursor_position"}
    THEN PlainHandler(m, action, text, coordinate, abortAt)
    ELSE Raise(m)

(***************************************************************************)
(* Inputs of __call__                                                      *)
(***************************************************************************)
KeyTexts ==
    { <<"C", "o", "m", "m", "a", "n", "d", "_", "L", "+", "q">>,
      <<"c", "o", "m", "m", "a", "n", "d", "+", "q">>,
      <<"C", "O", "M", "M", "A", "N", "D", "+", "q">>,
      <<"C", "o", "m", "m", "a", "n", "d", "+", "S", "h", "i", "f", "t", "_", "L", "+", "a">>,
      <<"R", "e", "t", "u", "r", "n">>,
      <<"a">> }

TextInputs == {PyNone, PyInt(42)} \cup {PyStr(s) : s \in KeyTexts}

Pair(x, y) == PyList(<<PyInt(x), PyInt(y)>>)

CoordinateInputs ==
    { PyNone,
      Pair(0, 0), Pair(1, 3), Pair(640, 400), Pair(1280, 800),
      Pair(1281, 400), Pair(640, 801), Pair(1500, 100), Pair(1921, 100),
      Pair(0 - 1, 5),
      PyList(<<PyInt(5)>>), PyList(<<PyInt(1), PyInt(2), PyInt(3)>>),
      PyList(<<PyFloat(10), PyInt(2)>>), PyTuple(<<PyInt(640), PyInt(400)>>) }

ActionInputs == Action \cup {"scroll"}

\* pyautogui.size() of the primary screen
Resolutions == { <<1280, 800>>, <<1920, 1200>>, <<1024, 640>> }

PointerInputs == { <<0, 0>>, <<100, 50>>, <<960, 600>> }

\* The most injection calls one handler makes (left_click_drag).
MaxInjected == 3

NoRequest == [action |-> "none", text |-> PyNone, coordinate |-> PyNone]

Request(a, t, c) == [action |-> a, text |-> t, coordinate |-> c]

\* The calls made: every action with and without each parameter, the movement
\* actions with every coordinate, the text actions with every text.
Requests ==
    {Request(a, PyNone, c) : a \in {"mouse_move", "left_click_drag"}, c \in CoordinateInputs}
    \cup {Request(a, PyStr(<<"a">>), c) : a \in {"mouse_move", "left_click_drag"},
                                          c \in {PyNone, Pair(640, 400)}}
    \cup {Request(a, t, PyNone) : a \in {"key", "type"}, t \in TextInputs}
    \cup {Request(a, t, Pair(640, 400)) : a \in {"key", "type"}, t \in {PyNone, PyStr(<<"a">>)}}
    \cup {Request(a, PyNone, c) : a \in ActionInputs \ {"mouse_move", "left_click_drag", "key", "type"},
                                  c \in {PyNone, Pair(640, 400)}}
    \cup {Request(a, PyStr(<<"a">>), PyNone) :
              a \in ActionInputs \ {"mouse_move", "left_click_drag", "key", "type"}}

\* ComputerTool.__init__
ToolInit ==
    /\ \E r \in Resolutions : width = r[1] /\ height = r[2]
    /\ pointer = <<100, 50>>
    /\ buttonDown = FALSE
    /\ req = NoRequest
    /\ calls = <<>>
    /\ outcome = "none"
    /\ result = NoResult
    /\ operation = PyNone /\ timeout = None /\ rpc = "idle" /\ process = "none"
    /\ procOut = None /\ worker = "none" /\ runOutcome = None /\ truncate_after = PyNone
    /\ content = <<>> /\ truncated = None

\* One whole __call__.
Dispatch ==
    \E rq \in Requests, abortAt \in 0..MaxInjected :
        LET r == Call(Machine(pointer, buttonDown), rq.action, rq.text, rq.coordinate, abortAt)
        IN /\ req' = rq
           /\ pointer' = r.m.pointer
           /\ buttonDown' = r.m.buttonDown
           /\ calls' = r.m.calls
           /\ outcome' = r.outcome
           /\ result' = r.result
           /\ UNCHANGED <<width, height, runVars, truncVars>>

\* The user moves the mouse between two calls.
UserMovesPointer ==
    /\ \E p \in PointerInputs : p # pointer /\ pointer' = p
    /\ UNCHANGED <<width, height, buttonDown, req, calls, outcome, result, runVars, truncVars>>

ToolNext == Dispatch \/ UserMovesPointer

SpecTool == ToolInit /\ [][ToolNext]_vars

(***************************************************************************)
(* run.py                                                                  *)
(***************************************************************************)
TRUNCATED_MESSAGE ==
    <<"<", "r", "e", "s", "p", "o", "n", "s", "e", " ", "c", "l", "i", "p", "p", "e",
      "d", ">", "<", "N", "O", "T", "E", ">", "R", "e", "s", "p", "o", "n", "s", "e",
      " ", "w", "a", "s", " ", "t", "r", "u", "n", "c", "a", "t", "e", "d", " ", "t",
      "o", " ", "s", "a", "v", "e", " ", "c", "o", "n", "t", "e", "x", "t", ".", "<",
      "/", "N", "O", "T", "E", ">">>
MAX_RESPONSE_LEN == 16000

Min(a, b) == IF a <= b THEN a ELSE b

\* maybe_truncate, were it to clip at len(content) >= truncate_after
maybe_truncate_strict(c, n) ==
    IF n.type = "NoneType" \/ n.val = 0 \/ Len(c) < n.val
    THEN c
    ELSE SubSeq(c, 1, Min(n.val, Len(c))) \o TRUNCATED_MESSAGE

\* maybe_truncate; content[:n] for n >= 0 is the first min(n, len) characters
maybe_truncate(c, n) ==
    IF n.type = "NoneType" \/ n.val = 0 \/ Len(c) <= n.val
    THEN c
    ELSE SubSeq(c, 1, Min(n.val, Len(c))) \o TRUNCATED_MESSAGE

\* f"Command '{cmd}' timed out after {timeout} seconds": the fields it interpolates
ShellTimeoutMessage(cmd, t) ==
    [template |-> "Command '{cmd}' timed out after {timeout} seconds",
     cmd |-> Some(cmd), timeout |-> Some(t)]

\* The callable's message, were it to leave the deadline out
CallableTimeoutMessage_NoDeadline(t) ==
    [template |-> "Operation timed out", cmd |-> None, timeout |-> None]

\* f"Operation timed out after {timeout} seconds"
CallableTimeoutMessage(t) ==
    [template |-> "Operation timed out after {timeout} seconds",
     cmd |-> None, timeout |-> Some(t)]

Returned(v) == [kind |-> "returned", value |-> v, msg |-> None]
Raised(k, m) == [kind |-> k, value |-> PyNone, msg |-> Some(m)]

\* process.kill(), were the signal never sent
process_kill_noop(p) == [process |-> p, error |-> None]

\* process.kill(): ProcessLookupError when the process has already exited
process_kill(p) ==
    IF p = "running" THEN [process |-> "killed", error |-> None]
    ELSE [process |-> p, error |-> Some("ProcessLookupError")]

\* The except clause of run_shell: kill, ignore ProcessLookupError, raise.
ShellTimeoutHandler(p, cmd, t) ==
    [process |-> process_kill(p).process,
     outcome |-> Raised("TimeoutError", ShellTimeoutMessage(cmd, t))]

\* What run_shell returns once communicate() has.
ShellResult(out, n) ==
    Returned(PyTuple(<<IF out.code = 0 THEN 0 ELSE out.code,
                       maybe_truncate(out.stdout, n), maybe_truncate(out.stderr, n)>>))

\* asyncio.iscoroutine(operation): true of a coroutine object, not of a function
iscoroutine(op) == op.type = "coroutine"

\* What operation() gives in the worker thread: calling an async function only
\* creates its coroutine, nothing of it has run.
ThreadValue(op) ==
    IF op.async THEN [type |-> "coroutine", of |-> op.name]
    ELSE [type |-> "object", of |-> op.name]

(***************************************************************************)
(* Inputs of run and maybe_truncate                                        *)
(***************************************************************************)
MaxLen == 3
MaxLimit == 3

RECURSIVE StringsOfLen(_)
StringsOfLen(n) ==
    IF n = 0 THEN {<<>>}
    ELSE {Append(s, c) : s \in StringsOfLen(n - 1), c \in {"a", "b"}}

Strings == UNION {StringsOfLen(n) : n \in 0..MaxLen}

Limits == {PyNone} \cup {PyInt(n) : n \in 0..MaxLimit}

Commands == { <<"l", "s">>, <<"s", "l", "e", "e", "p", " ", "5">> }

Operations ==
    {PyStr(c) : c \in Commands}
    \cup {[type |-> "function", name |-> "f", async |-> FALSE],
          [type |-> "function", name |-> "g", async |-> TRUE],
          [type |-> "coroutine"]}

\* timeout, in tenths of a second: 0.1, the default 120.0, or None
Timeouts == {None, Some(1), Some(1200)}

ProcessOutputs ==
    [code : {0, 1}, stdout : {<<>>, <<"a", "b", "a">>}, stderr : {<<>>, <<"b", "b">>}]

RunLimits == {PyNone, PyInt(2), PyInt(MAX_RESPONSE_LEN)}

\* Before run is called.
RunInit ==
    /\ operation = PyNone /\ timeout = None /\ rpc = "idle" /\ process = "none"
    /\ procOut = None /\ worker = "none" /\ runOutcome = None /\ truncate_after = PyNone
    /\ width = target_width /\ height = target_height /\ pointer = <<100, 50>>
    /\ buttonDown = FALSE /\ req = NoRequest /\ calls = <<>> /\ outcome = "none"
    /\ result = NoResult
    /\ content = <<>> /\ truncated = None

\* run is called: a command is spawned, a callable is handed to to_thread, a
\* coroutine object is called (which raises TypeError).
RunStart ==
    /\ rpc = "idle"
    /\ \E op \in Operations, t \in Timeouts, n \in RunLimits :
        /\ operation' = op /\ timeout' = t /\ truncate_after' = n
        /\ IF op.type = "str"
           THEN /\ process' = "running" /\ rpc' = "communicate"
                /\ UNCHANGED <<worker, runOutcome>>
           ELSE IF iscoroutine(op)
           THEN /\ rpc' = "done"
                /\ runOutcome' = Some(Raised("TypeError", [template |-> "not callable",
                                                           cmd |-> None, timeout |-> None]))
                /\ UNCHANGED <<process, worker>>
           ELSE /\ worker' = "running" /\ rpc' = "wait_for"
                /\ UNCHANGED <<process, runOutcome>>
    /\ UNCHANGED <<procOut, toolVars, truncVars>>

\* The spawned process writes its output and exits.
ProcessExits ==
    /\ process = "running"
    /\ process' = "exited"
    /\ \E out \in ProcessOutputs : procOut' = Some(out)
    /\ UNCHANGED <<operation, timeout, rpc, worker, runOutcome, truncate_after, toolVars, truncVars>>

\* communicate() returns before the deadline.
CommunicateReturns ==
    /\ rpc = "communicate" /\ process = "exited"
    /\ runOutcome' = Some(ShellResult(procOut[1], truncate_after))
    /\ rpc' = "done"
    /\ UNCHANGED <<operation, timeout, process, procOut, worker, truncate_after, toolVars, truncVars>>

\* The deadline expires while run_shell waits for communicate().
ShellTimeout ==
    /\ rpc = "communicate" /\ timeout # None
    /\ LET h == ShellTimeoutHandler(process, operation.val, timeout[1])
       IN process' = h.process /\ runOutcome' = Some(h.outcome)
    /\ rpc' = "done"
    /\ UNCHANGED <<operation, timeout, procOut, worker, truncate_after, toolVars, truncVars>>

\* The worker thread finishes calling operation().
WorkerReturns ==
    /\ worker = "running"
    /\ worker' = "returned"
    /\ UNCHANGED <<operation, timeout, rpc, process, procOut, runOutcome, truncate_after,
                   toolVars, truncVars>>

\* wait_for returns the worker's value before the deadline.
WaitForReturns ==
    /\ rpc = "wait_for" /\ worker = "returned"
    /\ runOutcome' = Some(Returned(ThreadValue(operation)))
    /\ rpc' = "done"
    /\ UNCHANGED <<operation, timeout, process, procOut, worker, truncate_after, toolVars, truncVars>>

\* The deadline expires while run waits for the worker, which is left running.
CallableTimeout ==
    /\ rpc = "wait_for" /\ timeout # None
    /\ runOutcome' = Some(Raised("TimeoutError", CallableTimeoutMessage(timeout[1])))
    /\ rpc' = "done"
    /\ UNCHANGED <<operation, timeout, process, procOut, worker, truncate_after, toolVars, truncVars>>

RunNext ==
    \/ RunStart \/ ProcessExits \/ CommunicateReturns \/ ShellTimeout
    \/ WorkerReturns \/ WaitForReturns \/ CallableTimeout

SpecRun == RunInit /\ [][RunNext]_vars

TruncInit ==
    /\ content \in Strings
    /\ truncate_after \in Limits
    /\ truncated = None
    /\ operation = PyNone /\ timeout = None /\ rpc = "idle" /\ process = "none"
    /\ procOut = None /\ worker = "none" /\ runOutcome = None
    /\ width = target_width /\ height = target_height /\ pointer = <<100, 50>>
    /\ buttonDown = FALSE /\ req = NoRequest /\ calls = <<>> /\ outcome = "none"
    /\ result = NoResult

\* maybe_truncate(content, truncate_after)
Truncate ==
    /\ truncated = None
    /\ truncated' = Some(maybe_truncate(content, truncate_after))
    /\ UNCHANGED <<content, toolVars, runVars>>

SpecTrunc == TruncInit /\ [][Truncate]_vars

(***************************************************************************)
(* Properties of ComputerTool.__call__                                     *)
(***************************************************************************)
IsSet(f) == Len(f) = 1
Called == outcome # "none"
Ops == [i \in 1..Len(calls) |-> calls[i].op]
Injections == SelectSeq(calls, LAMBDA e : e.op \notin {"position", "scale_coordinates", "grab"})

\* The validation rules as the specification states them: 0 <= x <= 1280, 0 <= y <= 800.
InLogicalBounds(c) ==
    /\ 0 <= c.val[1].val /\ c.val[1].val <= target_width
    /\ 0 <= c.val[2].val /\ c.val[2].val <= target_height

MalformedCoordinate(c) ==
    /\ c.type = "list"
    /\ \/ Len(c.val) # 2
       \/ \E i \in 1..Len(c.val) : c.val[i].type # "int" \/ c.val[i].val < 0
       \/ ~InLogicalBounds(c)

ViolatesValidation(rq) ==
    \/ rq.action \notin Action
    \/ /\ rq.action \in {"mouse_move", "left_click_drag"}
       /\ \/ rq.coordinate.type = "NoneType"
          \/ rq.text.type # "NoneType"
          \/ MalformedCoordinate(rq.coordinate)
    \/ /\ rq.action \in {"key", "type"}
       /\ (rq.text.type = "NoneType" \/ rq.coordinate.type # "NoneType")
    \/ /\ rq.action \in Action \ {"mouse_move", "left_click_drag", "key", "type"}
       /\ (rq.text.type # "NoneType" \/ rq.coordinate.type # "NoneType")

\* C1: every call that violates validation (parameter missing or forbidden,
\* coordinate not of length 2, negative or non-integer component, component
\* above the logical bound, unknown action) fails with a ToolError and has made
\* no injection call and no capture.
C1_ValidationFailsWithoutSideEffect ==
    (Called /\ ViolatesValidation(req)) => (outcome = "ToolError" /\ calls = <<>>)

\* C2: mouse_move and left_click_drag scale and act on a coordinate only if
\* 0 <= x <= 1280 and 0 <= y <= 800, whatever the physical resolution.
C2_ScaledOnlyWithinLogicalBounds ==
    (/\ Called
     /\ req.action \in {"mouse_move", "left_click_drag"}
     /\ \E i \in 1..Len(calls) : calls[i].op \in {"scale_coordinates", "moveTo"})
    => InLogicalBounds(req.coordinate)

\* C3: cursor_position returns "X=<int>,Y=<int>" with X = round(px / scale_x) and
\* Y = round(py / scale_y) for the pointer position (px, py) it read.
C3_CursorPositionIsInverseScaled ==
    (req.action = "cursor_position" /\ outcome = "ToolResult")
    => LET p == calls[1].arg
       IN result.output = Some(FormatXY(PyRound(p[1] * target_width, width),
                                        PyRound(p[2] * target_height, height)))

\* C8: a key text containing the command token in any letter case gives exactly
\* one hotkey press of the split tokens, any other text exactly one press of the
\* literal text; the result is empty.
C8_KeyComboAnyCase ==
    (req.action = "key" /\ outcome = "ToolResult")
    => /\ calls = <<IF Contains(Lower(req.text.val), <<"c", "o", "m", "m", "a", "n", "d">>)
                    THEN Ev("hotkey", HotkeyKeys(req.text.val))
                    ELSE Ev("press", <<req.text.val>>)>>
       /\ result = ToolResult(None, None, None)

\* C9: a returned ToolResult has error unset and at most one of output and image
\* set; type injects the text, then captures, and returns an image and no output.
C9_ResultPayloadExclusive ==
    outcome = "ToolResult"
    => /\ ~IsSet(result.error)
       /\ ~(IsSet(result.output) /\ IsSet(result.base64_image))
       /\ req.action = "type"
          => /\ calls = <<Ev("write", <<req.text.val>>), Ev("grab", <<>>)>>
             /\ IsSet(result.base64_image)
             /\ ~IsSet(result.output)

C9_Witness ==
    /\ req.action = "type" /\ outcome = "ToolResult"
    /\ Ops = <<"write", "grab">> /\ result.base64_image = Some(Image)

\* C10: a left_click_drag that returns has pressed, moved to the scaled
\* coordinate and released, in that order; no call, returning or failing, ends
\* with the button held down.
C10_DragAlwaysReleases ==
    /\ (req.action = "left_click_drag" /\ outcome = "ToolResult")
       => Injections = <<Ev("mouseDown", <<>>),
                         Ev("moveTo", scale_coordinates(req.coordinate.val[1].val,
                                                        req.coordinate.val[2].val)),
                         Ev("mouseUp", <<>>)>>
    /\ Called => ~buttonDown

(***************************************************************************)
(* Properties of run, run_shell and maybe_truncate                         *)
(***************************************************************************)
RunDone == rpc = "done"
TimedOut == RunDone /\ runOutcome[1].kind = "TimeoutError"

\* C4: given a callable, synchronous or asynchronous, run either returns the
\* callable's completed result or raises the timeout failure; it never returns
\* work that has not been executed.
C4_CallableResultIsCompleted ==
    (RunDone /\ operation.type = "function")
    => \/ runOutcome[1].kind = "TimeoutError"
       \/ runOutcome[1].kind = "returned" /\ runOutcome[1].value.type = "object"

C6_TimeoutNamesOperationAndDeadline ==
    TimedOut
    => /\ runOutcome[1].msg[1].timeout = timeout
       /\ runOutcome[1].msg[1].cmd =
              Some(IF operation.type = "str" THEN operation.val ELSE <<operation.name>>)

\* C6 amended: every timeout failure carries the configured deadline; that of a
\* command also carries the command text, that of a callable names no operation.
C6_TimeoutCarriesDeadline ==
    TimedOut
    => /\ runOutcome[1].msg[1].timeout = timeout
       /\ operation.type = "str" => runOutcome[1].msg[1].cmd = Some(operation.val)
       /\ operation.type = "function" => runOutcome[1].msg[1].cmd = None

C6_Witness ==
    /\ TimedOut /\ operation.type = "function" /\ timeout = Some(1)
    /\ runOutcome[1].msg[1].timeout = Some(1)

====
